---------------------------- MODULE Spec2Model ----------------------------
(***************************************************************************)
(* Model of the file-event reducer of src/src/filevents.cpp: read_events / *)
(* add_to_state (file-level fusion and the hash index) followed by         *)
(* simplify_state (folder delete collapsing and folder move detection).    *)
(*                                                                         *)
(* Representation.                                                         *)
(*  - A std::string that holds a path or a sub-path is the sequence of its *)
(*    tokens: every path segment is one token and every separator is the   *)
(*    token SEP.  Concatenation is \o.                                     *)
(*  - A t_path (std::list<std::string>) is the sequence of its segments;   *)
(*    make_path puts the segment SEP first for an absolute path.           *)
(*  - A t_tree (std::map<std::string, t_hash>) is the set of its           *)
(*    <<key, hash>> pairs; no two pairs share a key.                       *)
(*  - The t_hash_index (std::multimap<t_hash, t_path>) is the sequence of  *)
(*    its [key, value] entries; entries of one key are in insertion order  *)
(*    (the order equal_range walks them in).                               *)
(*  - The t_event_list (std::multiset ordered by timestamp) is the         *)
(*    sequence of its events in iteration order.  An iterator is an index  *)
(*    into it: Len(events) + 1 is end(), and 0 stands for an iterator      *)
(*    whose node has been erased.                                          *)
(***************************************************************************)
EXTENDS Integers, Sequences, FiniteSets, TLC

VARIABLES
    events,      \* t_algo_state::events
    hash_index,  \* t_algo_state::hash_index
    input,       \* the raw events read_events has read so far, in order
    pc,          \* position of main: "read", "cond", "incr", "done", "exit",
                 \* or "crashed"; "step" after simplify_folder_delete was
                 \* run on its own
    prev_it,     \* simplify_state's prev_it
    cur_it,      \* simplify_state's cur_it
    output       \* the events print_state has printed, in order

vars == <<events, hash_index, input, pc, prev_it, cur_it, output>>

SEP == "/"
NULL_HASH == "-"

(***************************************************************************)
(* Bounds of the model.                                                    *)
(***************************************************************************)
MaxEvents == 4

Hashes == {"H1", "H2"}

FolderPaths == {<<SEP, "a">>, <<SEP, "b">>}

\* The path /b is both a folder path and a file path.
FilePaths == {<<SEP, "a", "x">>, <<SEP, "b", "x">>, <<SEP, "b">>}

(***************************************************************************)
(* Path utilities.                                                         *)
(***************************************************************************)
get_name(path) == path[Len(path)]

get_parent(path) == SubSeq(path, 1, Len(path) - 1)

RECURSIVE path_to_string(_)
path_to_string(segs) ==
    IF segs = <<>> THEN <<>>
    ELSE IF Head(segs) # SEP /\ Tail(segs) # <<>>
         THEN <<Head(segs), SEP>> \o path_to_string(Tail(segs))
         ELSE <<Head(segs)>> \o path_to_string(Tail(segs))

(***************************************************************************)
(* Events.                                                                 *)
(***************************************************************************)
t_event_new(f, ts, p, h) ==
    [event_type |-> "e_new", file_type |-> f, timestamp |-> ts,
     path |-> p, hash |-> h]

t_event_delete(f, ts, p, h) ==
    [event_type |-> "e_delete", file_type |-> f, timestamp |-> ts,
     path |-> p, hash |-> h, subtree |-> {}]

t_event_modify(f, ts, p, old_h, new_h) ==
    [event_type |-> "e_modify", file_type |-> f, timestamp |-> ts,
     path |-> p, old_hash |-> old_h, new_hash |-> new_h]

t_event_move(f, ts, old_p, new_p) ==
    [event_type |-> "e_move", file_type |-> f, timestamp |-> ts,
     old_path |-> old_p, new_path |-> new_p]

t_event_copy(f, ts, src_p, dest_p) ==
    [event_type |-> "e_copy", file_type |-> f, timestamp |-> ts,
     src_path |-> src_p, dest_path |-> dest_p]

is_rename(m) == get_name(m.old_path) # get_name(m.new_path)

is_move(m) == get_parent(m.old_path) # get_parent(m.new_path)

(***************************************************************************)
(* The event list.                                                         *)
(***************************************************************************)
\* multiset::insert putting e before the events of its own timestamp.
InsertPos_lower_bound(evs, e) ==
    1 + Cardinality({i \in 1..Len(evs) : evs[i].timestamp < e.timestamp})

\* Where multiset::insert puts e: after every event that is not later than e.
InsertPos(evs, e) ==
    1 + Cardinality({i \in 1..Len(evs) : evs[i].timestamp <= e.timestamp})

InsertEvent(evs, e) ==
    LET k == InsertPos(evs, e)
    IN  SubSeq(evs, 1, k - 1) \o <<e>> \o SubSeq(evs, k, Len(evs))

\* remove_event(state, it)
remove_event(evs, i) == SubSeq(evs, 1, i - 1) \o SubSeq(evs, i + 1, Len(evs))

\* remove_event(state, start, end), for start <= end
remove_events(evs, start, end) ==
    SubSeq(evs, 1, start - 1) \o SubSeq(evs, end, Len(evs))

(***************************************************************************)
(* The hash index.                                                         *)
(***************************************************************************)
\* The indexes of equal_range(key), in the order the range is walked.
equal_range(idx, key) == {i \in 1..Len(idx) : idx[i].key = key}

Min(S) == CHOOSE x \in S : \A y \in S : x <= y

index_insert(idx, key, value) == Append(idx, [key |-> key, value |-> value])

\* remove_from_index erasing the first entry of the key's range whatever its
\* value.
remove_from_index_first(idx, key, value) ==
    IF equal_range(idx, key) = {} THEN idx
    ELSE LET i == Min(equal_range(idx, key))
         IN  SubSeq(idx, 1, i - 1) \o SubSeq(idx, i + 1, Len(idx))

remove_from_index(idx, key, value) ==
    LET hits == {i \in equal_range(idx, key) : idx[i].value = value}
    IN  IF hits = {} THEN idx
        ELSE LET i == Min(hits)
             IN  SubSeq(idx, 1, i - 1) \o SubSeq(idx, i + 1, Len(idx))

(***************************************************************************)
(* File simplifications.  Each returns [added, events].                    *)
(***************************************************************************)
\* simplify_to_modify_event without the file test of line 487.
simplify_to_modify_event_any_kind(evs, ev, prev) ==
    LET prev_ev == evs[prev]
    IN  IF /\ ev.event_type = "e_new"
           /\ prev_ev.event_type = "e_delete"
           /\ prev_ev.path = ev.path
        THEN [added |-> TRUE,
              events |-> SubSeq(evs, 1, prev - 1)
                         \o <<t_event_modify("e_file", ev.timestamp, ev.path,
                                             prev_ev.hash, ev.hash)>>]
        ELSE [added |-> FALSE, events |-> evs]

\* simplify_to_modify_event fusing only when the hash has changed.
simplify_to_modify_event_hash_changed(evs, ev, prev) ==
    LET prev_ev == evs[prev]
    IN  IF /\ prev_ev.file_type = "e_file"
           /\ ev.event_type = "e_new"
           /\ prev_ev.event_type = "e_delete"
           /\ prev_ev.path = ev.path
           /\ prev_ev.hash # ev.hash
        THEN LET modify_ev == t_event_modify("e_file", ev.timestamp, ev.path,
                                             prev_ev.hash, ev.hash)
                 k == InsertPos(evs, modify_ev)
                 ins == InsertEvent(evs, modify_ev)
             IN  [added |-> TRUE,
                  events |-> remove_event(ins, IF k <= prev THEN prev + 1 ELSE prev)]
        ELSE [added |-> FALSE, events |-> evs]

simplify_to_modify_event(evs, ev, prev) ==
    LET prev_ev == evs[prev]
    IN  IF /\ prev_ev.file_type = "e_file"
           /\ ev.event_type = "e_new"
           /\ prev_ev.event_type = "e_delete"
           /\ prev_ev.path = ev.path
        THEN LET modify_ev == t_event_modify("e_file", ev.timestamp, ev.path,
                                             prev_ev.hash, ev.hash)
                 k == InsertPos(evs, modify_ev)
                 ins == InsertEvent(evs, modify_ev)
             IN  [added |-> TRUE,
                  events |-> remove_event(ins, IF k <= prev THEN prev + 1 ELSE prev)]
        ELSE [added |-> FALSE, events |-> evs]

\* simplify_to_move_event without its remove_event.
simplify_to_move_event_keep_prev(evs, ev, prev) ==
    LET prev_ev == evs[prev]
    IN  IF /\ prev_ev.file_type = "e_file"
           /\ ev.event_type = "e_new"
           /\ prev_ev.event_type = "e_delete"
           /\ prev_ev.hash = ev.hash
        THEN [added |-> TRUE,
              events |-> InsertEvent(evs, t_event_move("e_file", ev.timestamp,
                                                       prev_ev.path, ev.path))]
        ELSE [added |-> FALSE, events |-> evs]

\* simplify_to_move_event reporting the end result instead of the history: a
\* Move that continues the Move stored just before the Delete is merged with
\* it.
simplify_to_move_event_merged(evs, ev, prev) ==
    LET prev_ev == evs[prev]
        r == simplify_to_move_event_keep_prev(evs, ev, prev)
        n == Len(evs)
    IN  IF ~r.added THEN r
        ELSE IF /\ n >= 2
                /\ evs[n - 1].event_type = "e_move"
                /\ evs[n - 1].new_path = prev_ev.path
        THEN [added |-> TRUE,
              events |-> SubSeq(evs, 1, n - 2)
                         \o <<t_event_move("e_file", ev.timestamp,
                                           evs[n - 1].old_path, ev.path)>>]
        ELSE [added |-> TRUE,
              events |-> SubSeq(evs, 1, n - 1)
                         \o <<t_event_move("e_file", ev.timestamp,
                                           prev_ev.path, ev.path)>>]

simplify_to_move_event(evs, ev, prev) ==
    LET prev_ev == evs[prev]
    IN  IF /\ prev_ev.file_type = "e_file"
           /\ ev.event_type = "e_new"
           /\ prev_ev.event_type = "e_delete"
           /\ prev_ev.hash = ev.hash
        THEN LET move_ev == t_event_move("e_file", ev.timestamp, prev_ev.path,
                                         ev.path)
                 k == InsertPos(evs, move_ev)
                 ins == InsertEvent(evs, move_ev)
             IN  [added |-> TRUE,
                  events |-> remove_event(ins, IF k <= prev THEN prev + 1 ELSE prev)]
        ELSE [added |-> FALSE, events |-> evs]

\* simplify_to_copy_event taking the last entry of the range, not the first.
simplify_to_copy_event_last(evs, idx, ev) ==
    IF ev.event_type = "e_new" /\ equal_range(idx, ev.hash) # {}
    THEN LET range == equal_range(idx, ev.hash)
             index_it == CHOOSE i \in range : \A j \in range : j <= i
             copy_ev == t_event_copy("e_file", ev.timestamp,
                                     idx[index_it].value, ev.path)
         IN  [added |-> TRUE, events |-> InsertEvent(evs, copy_ev)]
    ELSE [added |-> FALSE, events |-> evs]

\* simplify_to_copy_event without the event type test of line 518.
simplify_to_copy_event_any_type(evs, idx, ev) ==
    IF equal_range(idx, ev.hash) # {}
    THEN LET index_it == Min(equal_range(idx, ev.hash))
             copy_ev == t_event_copy("e_file", ev.timestamp,
                                     idx[index_it].value, ev.path)
         IN  [added |-> TRUE, events |-> InsertEvent(evs, copy_ev)]
    ELSE [added |-> FALSE, events |-> evs]

\* simplify_to_copy_event with the two paths of the Copy exchanged.
simplify_to_copy_event_swapped(evs, idx, ev) ==
    IF ev.event_type = "e_new" /\ equal_range(idx, ev.hash) # {}
    THEN LET index_it == Min(equal_range(idx, ev.hash))
             copy_ev == t_event_copy("e_file", ev.timestamp,
                                     ev.path, idx[index_it].value)
         IN  [added |-> TRUE, events |-> InsertEvent(evs, copy_ev)]
    ELSE [added |-> FALSE, events |-> evs]

simplify_to_copy_event(evs, idx, ev) ==
    IF ev.event_type = "e_new" /\ equal_range(idx, ev.hash) # {}
    THEN LET index_it == Min(equal_range(idx, ev.hash))
             copy_ev == t_event_copy("e_file", ev.timestamp,
                                     idx[index_it].value, ev.path)
         IN  [added |-> TRUE, events |-> InsertEvent(evs, copy_ev)]
    ELSE [added |-> FALSE, events |-> evs]

\* add_to_state fusing a Create with the most recent file Delete of the
\* store, wherever it is, instead of with the last event.
add_file_event_search_back(evs, idx, ev) ==
    LET dels == {i \in 1..Len(evs) :
                    evs[i].event_type = "e_delete" /\ evs[i].file_type = "e_file"}
        prev == IF dels = {} THEN Len(evs)
                ELSE CHOOSE i \in dels : \A j \in dels : j <= i
        r1 == IF evs # <<>> THEN simplify_to_modify_event(evs, ev, prev)
              ELSE [added |-> FALSE, events |-> evs]
        r2 == IF evs # <<>> /\ ~r1.added THEN simplify_to_move_event(evs, ev, prev)
              ELSE r1
        r3 == IF ~r2.added THEN simplify_to_copy_event(evs, idx, ev) ELSE r2
    IN  IF r3.added THEN r3.events ELSE InsertEvent(evs, ev)

\* add_to_state running the Copy test also after a fusion.
add_file_event_copy_also(evs, idx, ev) ==
    LET prev == Len(evs)
        r1 == IF evs # <<>> THEN simplify_to_modify_event(evs, ev, prev)
              ELSE [added |-> FALSE, events |-> evs]
        r2 == IF evs # <<>> /\ ~r1.added THEN simplify_to_move_event(evs, ev, prev)
              ELSE r1
        r3 == simplify_to_copy_event(r2.events, idx, ev)
    IN  IF r3.added THEN r3.events
        ELSE IF r2.added THEN r2.events
        ELSE InsertEvent(evs, ev)

\* add_to_state trying the Move fusion before the Modify fusion.
add_file_event_move_first(evs, idx, ev) ==
    LET prev == Len(evs)
        r1 == IF evs # <<>> THEN simplify_to_move_event(evs, ev, prev)
              ELSE [added |-> FALSE, events |-> evs]
        r2 == IF evs # <<>> /\ ~r1.added THEN simplify_to_modify_event(evs, ev, prev)
              ELSE r1
        r3 == IF ~r2.added THEN simplify_to_copy_event(evs, idx, ev) ELSE r2
    IN  IF r3.added THEN r3.events ELSE InsertEvent(evs, ev)

\* The event list after add_to_state(state, ev) for a file event.
add_file_event(evs, idx, ev) ==
    LET prev == Len(evs)
        r1 == IF evs # <<>> THEN simplify_to_modify_event(evs, ev, prev)
              ELSE [added |-> FALSE, events |-> evs]
        r2 == IF evs # <<>> /\ ~r1.added THEN simplify_to_move_event(evs, ev, prev)
              ELSE r1
        r3 == IF ~r2.added THEN simplify_to_copy_event(evs, idx, ev) ELSE r2
    IN  IF r3.added THEN r3.events ELSE InsertEvent(evs, ev)

\* The hash index after add_to_state(state, ev) for a file event.
\* update_index without the branch of the Deletes (lines 589-595).
update_index_creates_only(idx, ev) ==
    IF ev.event_type = "e_new" THEN index_insert(idx, ev.hash, ev.path)
    ELSE idx

update_index(idx, ev) ==
    IF ev.event_type = "e_new" THEN index_insert(idx, ev.hash, ev.path)
    ELSE IF ev.event_type = "e_delete" THEN remove_from_index(idx, ev.hash, ev.path)
    ELSE idx

\* add_to_state updating the hash index only when the event was stored as it
\* came, not when it was fused or turned into a Copy.
add_to_state_index_if_verbatim(ev) ==
    IF ev.file_type = "e_folder"
    THEN /\ events' = InsertEvent(events, ev)
         /\ hash_index' = hash_index
    ELSE /\ events' = add_file_event(events, hash_index, ev)
         /\ hash_index' = IF events' = InsertEvent(events, ev)
                          THEN update_index(hash_index, ev)
                          ELSE hash_index

\* add_to_state without the early return for folders and without the file
\* test of line 576: a folder event is fused, matched and indexed like a file
\* event.
add_to_state_folders_too(ev) ==
    /\ events' = add_file_event(events, hash_index, ev)
    /\ hash_index' = update_index(hash_index, ev)

add_to_state(ev) ==
    IF ev.file_type = "e_folder"
    THEN /\ events' = InsertEvent(events, ev)
         /\ hash_index' = hash_index
    ELSE /\ events' = add_file_event(events, hash_index, ev)
         /\ hash_index' = update_index(hash_index, ev)

(***************************************************************************)
(* read_events: one pass of its loop.  A raw event is [op, timestamp,      *)
(* path, hash]; the hash NULL_HASH makes it a folder event.                *)
(***************************************************************************)
ADD_EV == "ADD"

DEL_EV == "DEL"

make_event(raw) ==
    LET file_type == IF raw.hash = NULL_HASH THEN "e_folder" ELSE "e_file"
    IN  IF raw.op = ADD_EV
        THEN t_event_new(file_type, raw.timestamp, raw.path, raw.hash)
        ELSE t_event_delete(file_type, raw.timestamp, raw.path, raw.hash)

\* The raw events a line of the input can hold; the last set is the lines
\* whose keyword is neither ADD_EV nor DEL_EV.
RawInputs(ts) ==
    [op : {ADD_EV, DEL_EV}, timestamp : {ts}, path : FolderPaths, hash : {NULL_HASH}]
    \cup [op : {ADD_EV, DEL_EV}, timestamp : {ts}, path : FilePaths, hash : Hashes]
    \cup [op : {"MOV"}, timestamp : {ts}, path : {<<SEP, "a", "x">>}, hash : {"H1"}]

\* read_events without the assert of line 820: an unknown keyword is read as
\* a Delete.
read_one_no_assert(raw) ==
    /\ pc = "read"
    /\ add_to_state(make_event(raw))
    /\ input' = Append(input, raw)
    /\ UNCHANGED <<pc, prev_it, cur_it, output>>

\* One pass of the loop of lines 796-825.  The assert of line 820 stops the
\* program on a keyword that is neither ADD_EV nor DEL_EV.
read_one(raw) ==
    /\ pc = "read"
    /\ input' = Append(input, raw)
    /\ IF raw.op \in {ADD_EV, DEL_EV}
       THEN /\ add_to_state(make_event(raw))
            /\ pc' = pc
       ELSE /\ pc' = "crashed"
            /\ UNCHANGED <<events, hash_index>>
    /\ UNCHANGED <<prev_it, cur_it, output>>

ReadEvent ==
    /\ Len(input) < MaxEvents
    /\ \E raw \in RawInputs(Len(input) + 1) : read_one(raw)

(***************************************************************************)
(* Folder simplifications.                                                 *)
(***************************************************************************)
\* std::map::insert replacing the entry of a key that is already there.
tree_insert_overwrite(tree, key, value) ==
    {e \in tree : e[1] # key} \cup {<<key, value>>}

\* std::map::insert: an entry whose key is already there is not replaced.
tree_insert(tree, key, value) ==
    IF \E e \in tree : e[1] = key THEN tree ELSE tree \cup {<<key, value>>}

\* new_subpath without the separator.
new_subpath_no_sep(prev_name, key) == <<prev_name>> \o key

\* The key a sub-tree entry gets in the parent's sub-tree (lines 632-635).
new_subpath(prev_name, key) ==
    IF key = <<>> \/ Head(key) # SEP
    THEN <<prev_name, SEP>> \o key
    ELSE <<prev_name>> \o key

\* Returns [done, events]: on a match events has cur's subtree extended and
\* prev removed.  The transferred keys are pairwise distinct, so the order
\* of the loop of lines 630-637 does not show in the result.
\* simplify_folder_delete absorbing any descendant of cur, not only a direct
\* child.
simplify_folder_delete_any_descendant(evs, prev, cur) ==
    LET prev_ev == evs[prev]
        cur_ev == evs[cur]
    IN  IF /\ prev_ev.event_type = "e_delete"
           /\ cur_ev.event_type = "e_delete"
           /\ cur_ev.file_type = "e_folder"
           /\ Len(prev_ev.path) > Len(cur_ev.path)
           /\ SubSeq(prev_ev.path, 1, Len(cur_ev.path)) = cur_ev.path
        THEN [done |-> TRUE,
              events |-> remove_event(
                  [evs EXCEPT ![cur].subtree =
                      tree_insert(cur_ev.subtree, <<get_name(prev_ev.path)>>,
                                  prev_ev.hash)],
                  prev)]
        ELSE [done |-> FALSE, events |-> evs]

simplify_folder_delete(evs, prev, cur) ==
    LET prev_ev == evs[prev]
        cur_ev == evs[cur]
    IN  IF prev_ev.event_type # "e_delete" \/ cur_ev.event_type # "e_delete"
        THEN [done |-> FALSE, events |-> evs]
        ELSE IF cur_ev.file_type # "e_folder"
        THEN [done |-> FALSE, events |-> evs]
        ELSE IF cur_ev.path = get_parent(prev_ev.path)
        THEN LET prev_name == get_name(prev_ev.path)
                 t1 == tree_insert(cur_ev.subtree, <<prev_name>>, prev_ev.hash)
                 moved == {<<new_subpath(prev_name, e[1]), e[2]>> :
                              e \in prev_ev.subtree}
                 t2 == t1 \cup {m \in moved : ~ \E e \in t1 : e[1] = m[1]}
                 upd == [evs EXCEPT ![cur].subtree = t2]
             IN  [done |-> TRUE, events |-> remove_event(upd, prev)]
        ELSE [done |-> FALSE, events |-> evs]

IsPrefixOf(prefix, path) ==
    /\ Len(prefix) <= Len(path)
    /\ SubSeq(path, 1, Len(prefix)) = prefix

\* The loop of lines 664-682 from ev_it on; returns [it, subtree].
RECURSIVE add_bounds_loop(_, _, _, _)
add_bounds_loop(evs, base, ev_it, subtree) ==
    IF ev_it > Len(evs) THEN [it |-> ev_it, subtree |-> subtree]
    ELSE IF evs[ev_it].event_type # "e_new"
    THEN [it |-> ev_it, subtree |-> subtree]
    ELSE IF Len(evs[ev_it].path) <= Len(base)
    THEN [it |-> ev_it, subtree |-> subtree]
    ELSE IF ~IsPrefixOf(base, evs[ev_it].path)
    THEN [it |-> ev_it, subtree |-> subtree]
    ELSE LET p == evs[ev_it].path
             subpath == path_to_string(SubSeq(p, Len(base) + 1, Len(p)))
         IN  add_bounds_loop(evs, base, ev_it + 1,
                             tree_insert(subtree, subpath, evs[ev_it].hash))

find_add_bounds(evs, start) ==
    IF start > Len(evs) \/ evs[start].event_type # "e_new"
    THEN [it |-> start, subtree |-> {}]
    ELSE add_bounds_loop(evs, evs[start].path, start + 1, {})

\* simplify_to_folder_move comparing the sizes of the two subtrees only.
simplify_to_folder_move_size_only(evs, prev, cur) ==
    LET same == [events |-> evs, cur |-> cur, moved |-> FALSE, crash |-> FALSE]
    IN  IF evs[prev].event_type # "e_delete" \/ evs[cur].event_type # "e_new"
        THEN same
        ELSE LET bounds_result == find_add_bounds(evs, cur)
                 end_bound_it == bounds_result.it
                 rest == remove_events(evs, prev, end_bound_it)
                 move_ev == t_event_move("e_folder", evs[cur].timestamp,
                                         evs[prev].path, evs[cur].path)
             IN  IF end_bound_it = cur THEN same
                 ELSE IF Cardinality(bounds_result.subtree)
                            # Cardinality(evs[prev].subtree)
                 THEN same
                 ELSE IF prev > end_bound_it
                 THEN [events |-> evs, cur |-> cur, moved |-> FALSE, crash |-> TRUE]
                 ELSE [events |-> InsertEvent(rest, move_ev),
                       cur |-> InsertPos(rest, move_ev),
                       moved |-> TRUE, crash |-> FALSE]

\* Returns [events, cur, moved, crash].  The test of lines 700-701 is an
\* expression statement without a return, so the file type of prev is not
\* looked at.  remove_event(state, prev_it, end_bound_it) walks forward from
\* prev_it: when prev_it is behind end_bound_it it runs off the end of the
\* list (crash).
simplify_to_folder_move(evs, prev, cur) ==
    LET same == [events |-> evs, cur |-> cur, moved |-> FALSE, crash |-> FALSE]
    IN  IF evs[prev].event_type # "e_delete" \/ evs[cur].event_type # "e_new"
        THEN same
        ELSE LET bounds_result == find_add_bounds(evs, cur)
                 end_bound_it == bounds_result.it
                 add_subtree == bounds_result.subtree
             IN  IF end_bound_it = cur THEN same
                 ELSE IF Cardinality(add_subtree) # Cardinality(evs[prev].subtree)
                 THEN same
                 ELSE IF add_subtree # evs[prev].subtree THEN same
                 ELSE IF prev > end_bound_it
                 THEN [events |-> evs, cur |-> cur, moved |-> FALSE, crash |-> TRUE]
                 ELSE LET move_ev == t_event_move("e_folder", evs[cur].timestamp,
                                                  evs[prev].path, evs[cur].path)
                          rest == remove_events(evs, prev, end_bound_it)
                      IN  [events |-> InsertEvent(rest, move_ev),
                           cur |-> InsertPos(rest, move_ev),
                           moved |-> TRUE, crash |-> FALSE]

\* The while loop of lines 758-762; returns [events, prev, cur], prev = 0
\* when the loop is left with prev_it erased.
RECURSIVE collapse_loop(_, _, _)
collapse_loop(evs, prev, cur) ==
    LET r == simplify_folder_delete(evs, prev, cur)
        c == IF prev < cur THEN cur - 1 ELSE cur
    IN  IF ~r.done THEN [events |-> evs, prev |-> prev, cur |-> cur]
        ELSE IF c = 1 THEN [events |-> r.events, prev |-> 0, cur |-> c]
        ELSE collapse_loop(r.events, c - 1, c)

\* The body of the for loop of simplify_state (lines 756-772); returns
\* [events, prev, cur, crash].
loop_body(evs, prev, cur) ==
    LET w == collapse_loop(evs, prev, cur)
    IN  IF w.cur = 1
        THEN [events |-> w.events, prev |-> w.prev, cur |-> w.cur, crash |-> FALSE]
        ELSE LET m == simplify_to_folder_move(w.events, w.prev, w.cur)
             IN  [events |-> m.events,
                  prev |-> IF m.cur = 1 THEN 0 ELSE m.cur - 1,
                  cur |-> m.cur,
                  crash |-> m.crash]

(***************************************************************************)
(* simplify_state.                                                         *)
(***************************************************************************)
\* Lines 752-753 on a list that is not empty.
begin_simplify ==
    /\ pc = "read"
    /\ events # <<>>
    /\ prev_it' = 1
    /\ cur_it' = 2
    /\ pc' = "cond"
    /\ UNCHANGED <<events, hash_index, input, output>>

SimplifyBegin == begin_simplify

\* Lines 752-753 on an empty list: prev_it is end() and inc(prev_it) is
\* undefined.  Either the program stops there, or cur_it compares equal to
\* end() and the loop is not entered.
SimplifyBeginEmpty ==
    /\ pc = "read"
    /\ events = <<>>
    /\ prev_it' = 1
    /\ cur_it' = 1
    /\ pc' \in {"crashed", "cond"}
    /\ UNCHANGED <<events, hash_index, input, output>>

\* SimplifyBody taking the Creates it removes from the store out of the hash
\* index as well.
SimplifyBody_unindexes ==
    /\ pc = "cond"
    /\ cur_it <= Len(events)
    /\ LET b == loop_body(events, prev_it, cur_it)
           Removed(en) ==
               \E i \in 1..Len(events) :
                   /\ events[i].event_type = "e_new"
                   /\ events[i].path = en.value
                   /\ \A j \in 1..Len(b.events) : b.events[j] # events[i]
           Kept(en) == ~Removed(en)
       IN  /\ events' = b.events
           /\ prev_it' = b.prev
           /\ cur_it' = b.cur
           /\ pc' = IF b.crash THEN "crashed" ELSE "incr"
           /\ hash_index' = SelectSeq(hash_index, Kept)
    /\ UNCHANGED <<input, output>>

SimplifyBody ==
    /\ pc = "cond"
    /\ cur_it <= Len(events)
    /\ LET b == loop_body(events, prev_it, cur_it)
       IN  /\ events' = b.events
           /\ prev_it' = b.prev
           /\ cur_it' = b.cur
           /\ pc' = IF b.crash THEN "crashed" ELSE "incr"
    /\ UNCHANGED <<hash_index, input, output>>

\* ++cur_it, ++prev_it with prev_it in the list.
SimplifyIncr ==
    /\ pc = "incr"
    /\ prev_it # 0
    /\ cur_it' = cur_it + 1
    /\ prev_it' = prev_it + 1
    /\ pc' = "cond"
    /\ UNCHANGED <<events, hash_index, input, output>>

\* ++cur_it, ++prev_it after a continue: prev_it's node was erased, and
\* incrementing it is undefined.  Either the program stops, or prev_it ends
\* up at some node of the list.
SimplifyIncrErased ==
    /\ pc = "incr"
    /\ prev_it = 0
    /\ cur_it' = cur_it + 1
    /\ \/ /\ pc' = "crashed"
          /\ prev_it' = 0
       \/ /\ pc' = "cond"
          /\ prev_it' \in 1..Len(events)
    /\ UNCHANGED <<events, hash_index, input, output>>

SimplifyEnd ==
    /\ pc = "cond"
    /\ cur_it = Len(events) + 1
    /\ pc' = "done"
    /\ UNCHANGED <<events, hash_index, input, prev_it, cur_it, output>>

\* print_state, after simplify_state has returned.
PrintState ==
    /\ pc = "done"
    /\ output' = events
    /\ pc' = "exit"
    /\ UNCHANGED <<events, hash_index, input, prev_it, cur_it>>

Init ==
    /\ events = <<>>
    /\ hash_index = <<>>
    /\ input = <<>>
    /\ pc = "read"
    /\ prev_it = 0
    /\ cur_it = 0
    /\ output = <<>>

Next ==
    \/ ReadEvent
    \/ SimplifyBegin
    \/ SimplifyBeginEmpty
    \/ SimplifyBody
    \/ SimplifyIncr
    \/ SimplifyIncrErased
    \/ SimplifyEnd
    \/ PrintState

Spec == Init /\ [][Next]_vars

\* read_events alone: the states add_to_state is called in and leaves.
SpecRead == Init /\ [][ReadEvent]_vars

(***************************************************************************)
(* Inputs whose timestamps do not decrease but may repeat (the input order *)
(* the header comment of the file assumes), over one hash and two files.   *)
(***************************************************************************)
TiedInputs(ts) ==
    {r \in RawInputs(ts) :
        /\ r.op \in {ADD_EV, DEL_EV}
        /\ r.hash \in {NULL_HASH, "H1"}
        /\ r.path # <<SEP, "b">>}

ReadTied ==
    /\ Len(input) < MaxEvents
    /\ \E ts \in (IF input = <<>> THEN {1}
                  ELSE {input[Len(input)].timestamp,
                        input[Len(input)].timestamp + 1}) :
          \E raw \in TiedInputs(ts) : read_one(raw)

NextTies ==
    \/ ReadTied
    \/ SimplifyBegin
    \/ SimplifyBeginEmpty
    \/ SimplifyBody
    \/ SimplifyIncr
    \/ SimplifyIncrErased
    \/ SimplifyEnd
    \/ PrintState

SpecTies == Init /\ [][NextTies]_vars

(***************************************************************************)
(* Inputs over the tree /a/{b/x, x}: its Deletes in any order, the Create  *)
(* of the file /a/x and the Create of a folder /c.                         *)
(***************************************************************************)
CollapseInputs(ts) ==
    [op : {DEL_EV}, timestamp : {ts},
     path : {<<SEP, "a">>, <<SEP, "a", "b">>}, hash : {NULL_HASH}]
    \cup [op : {DEL_EV}, timestamp : {ts},
          path : {<<SEP, "a", "b", "x">>, <<SEP, "a", "x">>}, hash : Hashes]
    \cup [op : {ADD_EV}, timestamp : {ts},
          path : {<<SEP, "a", "x">>}, hash : {"H1"}]
    \cup [op : {ADD_EV}, timestamp : {ts},
          path : {<<SEP, "c">>}, hash : {NULL_HASH}]

ReadForCollapse ==
    /\ Len(input) < MaxEvents
    /\ \E raw \in CollapseInputs(Len(input) + 1) : read_one(raw)

\* main on these inputs.
NextScan ==
    \/ ReadForCollapse
    \/ SimplifyBegin
    \/ SimplifyBeginEmpty
    \/ SimplifyBody
    \/ SimplifyIncr
    \/ SimplifyIncrErased
    \/ SimplifyEnd
    \/ PrintState

SpecScan == Init /\ [][NextScan]_vars

\* simplify_folder_delete on its own: after reading, the function is applied
\* to adjacent events, any number of times.  prev_it and cur_it hold the
\* arguments of the last application.
CollapseAt ==
    /\ pc \in {"read", "step"}
    /\ \E i \in 1..(Len(events) - 1) :
          /\ events' = simplify_folder_delete(events, i, i + 1).events
          /\ prev_it' = i
          /\ cur_it' = i + 1
    /\ pc' = "step"
    /\ UNCHANGED <<hash_index, input, output>>

NextCollapse ==
    \/ ReadForCollapse
    \/ CollapseAt

SpecCollapse == Init /\ [][NextCollapse]_vars

(***************************************************************************)
(* Folder-tree inputs: the streams of run_tests' TEST FOLDER and           *)
(* TEST DROPBOX and their variations.  A script is a whole input; the      *)
(* timestamp of a raw event is its position in the input.                  *)
(***************************************************************************)
raw_event(op, path, hash) == [op |-> op, path |-> path, hash |-> hash]

Stamp(script) ==
    [i \in 1..Len(script) |->
        [op |-> script[i].op, timestamp |-> i,
         path |-> script[i].path, hash |-> script[i].hash]]

\* What is read before the tree's events: nothing, an unrelated folder, or
\* an unrelated file that is live with the hash H1.
Preludes ==
    {<<>>,
     <<raw_event("ADD", <<SEP, "z">>, NULL_HASH)>>,
     <<raw_event("ADD", <<SEP, "z.t">>, "H1")>>}

\* The deletes of the tree root/{b/c.t, d.t}, children first (lines 879-888).
NestedDeletes(root, h1, h2) ==
    <<raw_event("DEL", root \o <<"b", "c.t">>, h1),
      raw_event("DEL", root \o <<"b">>, NULL_HASH),
      raw_event("DEL", root \o <<"d.t">>, h2),
      raw_event("DEL", root, NULL_HASH)>>

\* The creates of the same tree under another root (lines 890-893).
NestedCreates(root, h1, h2) ==
    <<raw_event("ADD", root, NULL_HASH),
      raw_event("ADD", root \o <<"d.t">>, h2),
      raw_event("ADD", root \o <<"b">>, NULL_HASH),
      raw_event("ADD", root \o <<"b", "c.t">>, h1)>>

\* The tree root/{x.t, y.t} deleted and created again (lines 911-915 with
\* a second file), the creates in either order.
FlatDeletes(root, hx, hy) ==
    <<raw_event("DEL", root \o <<"x.t">>, hx),
      raw_event("DEL", root \o <<"y.t">>, hy),
      raw_event("DEL", root, NULL_HASH)>>

FlatCreates(root, hx, hy) ==
    {<<raw_event("ADD", root, NULL_HASH),
       raw_event("ADD", root \o <<"x.t">>, hx),
       raw_event("ADD", root \o <<"y.t">>, hy)>>,
     <<raw_event("ADD", root, NULL_HASH),
       raw_event("ADD", root \o <<"y.t">>, hy),
       raw_event("ADD", root \o <<"x.t">>, hx)>>}

PathF == <<SEP, "f">>
PathGH == <<SEP, "g", "h">>
PathG == <<SEP, "g">>
PathA == <<SEP, "a">>

\* A folder tree deleted and created again elsewhere.
MoveScripts ==
    {Stamp(pre \o NestedDeletes(PathF, h1, h2) \o NestedCreates(PathGH, h1, h2)) :
        pre \in Preludes, h1 \in Hashes, h2 \in Hashes}
    \cup
    UNION {{Stamp(pre \o FlatDeletes(PathF, hx, hy) \o cr) :
               cr \in FlatCreates(PathG, hx, hy)} :
           pre \in Preludes, hx \in Hashes, hy \in Hashes}

\* A folder tree deleted.
DeleteScripts ==
    {Stamp(pre \o NestedDeletes(PathA, h1, h2)) :
        pre \in Preludes, h1 \in Hashes, h2 \in Hashes}

\* The whole input of TEST FOLDER (lines 879-893).
TestFolderScript ==
    Stamp(NestedDeletes(PathA, "1111", "2222")
          \o NestedDeletes(PathF, "3333", "4444")
          \o NestedCreates(PathGH, "3333", "4444"))

\* A folder tree deleted, followed by the creates of a tree that differs
\* from it: in a hash, in a file name, or in the number of entries.
OtherCreates(root, h1, h2) ==
    {NestedCreates(root, k1, k2) :
        k1 \in Hashes \ {h1}, k2 \in Hashes}
    \cup {NestedCreates(root, h1, k2) : k2 \in Hashes \ {h2}}
    \cup {<<raw_event("ADD", root, NULL_HASH),
            raw_event("ADD", root \o <<"e.t">>, h2),
            raw_event("ADD", root \o <<"b">>, NULL_HASH),
            raw_event("ADD", root \o <<"b", "c.t">>, h1)>>,
          SubSeq(NestedCreates(root, h1, h2), 1, 3),
          NestedCreates(root, h1, h2)
              \o <<raw_event("ADD", root \o <<"e.t">>, "H3")>>}

MismatchScripts ==
    UNION {{Stamp(pre \o NestedDeletes(PathF, h1, h2) \o cr) :
               cr \in OtherCreates(PathGH, h1, h2)} :
           pre \in Preludes, h1 \in Hashes, h2 \in Hashes}

\* A folder Delete right after the Deletes of one, two or three of its
\* files (lines 911-912 with more files).
ChildDeletes(root, h1, h2, h3) ==
    {<<raw_event("DEL", root \o <<"x.t">>, h1),
       raw_event("DEL", root, NULL_HASH)>>,
     <<raw_event("DEL", root \o <<"x.t">>, h1),
       raw_event("DEL", root \o <<"y.t">>, h2),
       raw_event("DEL", root, NULL_HASH)>>,
     <<raw_event("DEL", root \o <<"x.t">>, h1),
       raw_event("DEL", root \o <<"y.t">>, h2),
       raw_event("DEL", root \o <<"z.t">>, h3),
       raw_event("DEL", root, NULL_HASH)>>}

ChildRunScripts ==
    UNION {{Stamp(pre \o run) : run \in ChildDeletes(PathA, h1, h2, h3)} :
           pre \in Preludes, h1 \in Hashes, h2 \in Hashes, h3 \in Hashes}

Scripts ==
    MoveScripts \cup DeleteScripts \cup MismatchScripts \cup {TestFolderScript}
    \cup ChildRunScripts

ReadScript ==
    \E s \in Scripts :
        /\ Len(input) < Len(s)
        /\ SubSeq(s, 1, Len(input)) = input
        /\ read_one(s[Len(input) + 1])

SimplifyBeginScript ==
    /\ input \in Scripts
    /\ begin_simplify

NextTree ==
    \/ ReadScript
    \/ SimplifyBeginScript
    \/ SimplifyBody
    \/ SimplifyIncr
    \/ SimplifyIncrErased
    \/ SimplifyEnd
    \/ PrintState

SpecTree == Init /\ [][NextTree]_vars


(***************************************************************************)
(* Vocabulary of the properties.                                           *)
(***************************************************************************)
\* The step is one call of add_to_state, on the raw event LastRead'.
ReadStep == Len(input') = Len(input) + 1

LastRead == input[Len(input)]

LastEvent == events[Len(events)]

IsFile(r) == r.hash # NULL_HASH

IsEvent(e, event_type, file_type) ==
    e.event_type = event_type /\ e.file_type = file_type

\* simplify_state has returned.
Simplified == pc = "done"

\* The position of the last raw Delete of an input.
LastDel(inp) ==
    CHOOSE k \in 1..Len(inp) :
        inp[k].op = "DEL" /\ \A j \in (k + 1)..Len(inp) : inp[j].op # "DEL"

(***************************************************************************)
(* C1: every folder tree whose deletes (children first, root last) are     *)
(* immediately followed by the creates of the same tree under a new root   *)
(* ends, after simplify_state, as exactly one folder Move{F, P}, and no    *)
(* Delete or Create of the two trees remains in the store.                 *)
(***************************************************************************)
C1_TreeMoveIsOneMove ==
    (Simplified /\ input \in MoveScripts) =>
        LET F == input[LastDel(input)].path
            P == input[LastDel(input) + 1].path
        IN  /\ Cardinality({i \in 1..Len(events) :
                    /\ IsEvent(events[i], "e_move", "e_folder")
                    /\ events[i].old_path = F
                    /\ events[i].new_path = P}) = 1
            /\ \A i \in 1..Len(events) :
                    events[i].event_type \in {"e_new", "e_delete"} =>
                        ~(IsPrefixOf(F, events[i].path) \/ IsPrefixOf(P, events[i].path))

(***************************************************************************)
(* C2: from the empty state, the input DEL /f/b/c.t H1, DEL /f/b -,        *)
(* DEL /f/d.t H2, DEL /f -, ADD /g/h -, ADD /g/h/d.t H2, ADD /g/h/b -,     *)
(* ADD /g/h/b/c.t H1 leaves, after simplify_state, the store holding the   *)
(* single event folder Move{/f, /g/h}.                                     *)
(***************************************************************************)
C2_Script ==
    Stamp(NestedDeletes(PathF, "H1", "H2") \o NestedCreates(PathGH, "H1", "H2"))

TreeEvents(evs, root) ==
    {i \in 1..Len(evs) :
        \E f \in {"path", "old_path", "new_path", "src_path", "dest_path"} :
            f \in DOMAIN evs[i] /\ IsPrefixOf(root, evs[i][f])}

\* The store holds one event of the tree /a: its Delete, with this subtree.
OneDeleteOfA(subtree) ==
    \E i \in 1..Len(events) :
        /\ TreeEvents(events, PathA) = {i}
        /\ IsEvent(events[i], "e_delete", "e_folder")
        /\ events[i].path = PathA
        /\ events[i].subtree = subtree

HashOfC == input[Len(input) - 3].hash

HashOfD == input[Len(input) - 1].hash

C3_SubtreeAsClaimed ==
    (Simplified /\ input \in DeleteScripts) =>
        OneDeleteOfA({<<<<"b", SEP, "c.t">>, HashOfC>>, <<<<"d.t">>, HashOfD>>})

C3_SubtreeWithFolderEntry ==
    (Simplified /\ input \in DeleteScripts) =>
        OneDeleteOfA({<<<<"b">>, NULL_HASH>>,
                      <<<<"b", SEP, "c.t">>, HashOfC>>,
                      <<<<"d.t">>, HashOfD>>})

C3_Witness ==
    /\ Simplified
    /\ input \in DeleteScripts
    /\ Len(events) = 2
    /\ Cardinality(events[2].subtree) = 3

(***************************************************************************)
(* C4: when the last event of the store is a file Delete{p1,h} and the     *)
(* file Create{p2,h} with p2 # p1 is ingested, the Delete is replaced by   *)
(* the file Move{p1,p2}: the rest of the store is unchanged and nothing is *)
(* appended.                                                               *)
(***************************************************************************)
C4_MoveFusion ==
    [][(/\ ReadStep
        /\ events # <<>>
        /\ IsEvent(LastEvent, "e_delete", "e_file")
        /\ LastRead'.op = "ADD"
        /\ IsFile(LastRead')
        /\ LastRead'.hash = LastEvent.hash
        /\ LastRead'.path # LastEvent.path)
       => events' = SubSeq(events, 1, Len(events) - 1)
                    \o <<t_event_move("e_file", LastRead'.timestamp,
                                      LastEvent.path, LastRead'.path)>>]_vars

C4_Witness ==
    /\ pc = "read"
    /\ Len(input) >= 3
    /\ input[Len(input) - 1].op = "DEL"
    /\ IsFile(input[Len(input) - 1])
    /\ LastRead.op = "ADD"
    /\ LastRead.hash = input[Len(input) - 1].hash
    /\ LastRead.path # input[Len(input) - 1].path
    /\ IsEvent(LastEvent, "e_move", "e_file")
    /\ LastEvent.old_path = input[Len(input) - 1].path
    /\ LastEvent.new_path = LastRead.path
    /\ Len(events) = 2

NoFusion(evs, r) ==
    \/ evs = <<>>
    \/ ~IsEvent(evs[Len(evs)], "e_delete", "e_file")
    \/ /\ evs[Len(evs)].path # r.path
       /\ evs[Len(evs)].hash # r.hash

\* The event e is what the store holds for the creation of path p.
CreatesPath(e, p) ==
    \/ e.event_type = "e_new" /\ e.path = p
    \/ e.event_type = "e_modify" /\ e.path = p
    \/ e.event_type = "e_move" /\ e.new_path = p
    \/ e.event_type = "e_copy" /\ e.dest_path = p

IndexPaths(idx, h) == {idx[i].value : i \in equal_range(idx, h)}

C6_CopyDetection ==
    [][(/\ ReadStep
        /\ LastRead'.op = "ADD"
        /\ IsFile(LastRead')
        /\ NoFusion(events, LastRead')
        /\ IndexPaths(hash_index, LastRead'.hash) # {})
       => \E p1 \in IndexPaths(hash_index, LastRead'.hash) :
            /\ events' = Append(events, t_event_copy("e_file", LastRead'.timestamp,
                                                     p1, LastRead'.path))
            /\ \E i \in 1..Len(events) :
                    CreatesPath(events[i], p1) /\ events'[i] = events[i]]_vars

C6_Witness ==
    /\ pc = "read"
    /\ Len(input) = 3
    /\ input[1].op = "ADD"
    /\ IsFile(input[1])
    /\ ~IsFile(input[2])
    /\ LastRead.op = "ADD"
    /\ LastRead.hash = input[1].hash
    /\ LastRead.path # input[1].path
    /\ Len(events) = 3
    /\ events[1] = make_event(input[1])
    /\ IsEvent(events[3], "e_copy", "e_file")
    /\ events[3].src_path = input[1].path
    /\ events[3].dest_path = LastRead.path

(***************************************************************************)
(* C7: after any prefix of any input, the paths the hash index holds under *)
(* a hash h are exactly the file paths whose most recent raw Create        *)
(* carried h and that had no raw Delete since, each listed once.           *)
(***************************************************************************)
\* According to the raw input: path p is live and carries hash h.
LiveWith(inp, p, h) ==
    \E i \in 1..Len(inp) :
        /\ inp[i].op = "ADD"
        /\ inp[i].path = p
        /\ inp[i].hash = h
        /\ \A j \in (i + 1)..Len(inp) : inp[j].path # p

C7_IndexIsGroundTruth ==
    \A h \in Hashes :
        /\ IndexPaths(hash_index, h) = {p \in FilePaths : LiveWith(input, p, h)}
        /\ Cardinality(equal_range(hash_index, h))
               = Cardinality(IndexPaths(hash_index, h))

(***************************************************************************)
(* C8: a folder Delete that the scan has passed and that is immediately    *)
(* followed by a run of Creates whose built subtree differs from the       *)
(* Delete's subtree stays in the store with every Create of the run,       *)
(* unchanged and in place, at every later step of simplify_state.          *)
(***************************************************************************)
MismatchAt(evs, i) ==
    /\ i < Len(evs)
    /\ IsEvent(evs[i], "e_delete", "e_folder")
    /\ evs[i + 1].event_type = "e_new"
    /\ find_add_bounds(evs, i + 1).subtree # evs[i].subtree

C8_MismatchLeavesRun ==
    [][\A i \in 1..Len(events) :
          (/\ pc \in {"cond", "incr"}
           /\ i < cur_it
           /\ MismatchAt(events, i))
          => \A j \in i..(find_add_bounds(events, i + 1).it - 1) :
                j <= Len(events') /\ events'[j] = events[j]]_vars

C8_Witness ==
    /\ Simplified
    /\ \E i \in 1..Len(events) :
          /\ MismatchAt(events, i)
          /\ Cardinality(events[i].subtree) = 3
          /\ Cardinality(find_add_bounds(events, i + 1).subtree) = 3

(***************************************************************************)
(* C9: simplify_state turns a Delete followed by a Create into a Move only *)
(* when the Delete is a folder Delete: a pass of its loop on a file Delete *)
(* (prev_it) immediately followed by a Create (cur_it) leaves the store    *)
(* unchanged.                                                              *)
(***************************************************************************)
C9_FileDeleteIsNotMoved ==
    [][(/\ pc = "cond"
        /\ cur_it <= Len(events)
        /\ prev_it = cur_it - 1
        /\ prev_it >= 1
        /\ IsEvent(events[prev_it], "e_delete", "e_file")
        /\ events[cur_it].event_type = "e_new")
       => events' = events]_vars

(***************************************************************************)
(* C10: ingesting a raw file Delete{p,h} while the hash index holds no     *)
(* entry (h,p).  As claimed it ends in an error state that stops the pass; *)
(* as amended the Delete is appended like any other, the index is left     *)
(* unchanged and the pass goes on.                                         *)
(***************************************************************************)
UnmatchedDelete(idx, r) ==
    /\ r.op = "DEL"
    /\ IsFile(r)
    /\ r.path \notin IndexPaths(idx, r.hash)

C10_UnmatchedDeleteFails ==
    [][(ReadStep /\ UnmatchedDelete(hash_index, LastRead'))
       => pc' = "crashed"]_vars

C10_UnmatchedDeleteIgnored ==
    [][(ReadStep /\ UnmatchedDelete(hash_index, LastRead'))
       => /\ hash_index' = hash_index
          /\ events' = Append(events, make_event(LastRead'))
          /\ pc' = "read"]_vars

C10_Witness ==
    /\ pc = "read"
    /\ Len(input) = 2
    /\ input[1].op = "ADD"
    /\ IsFile(input[1])
    /\ UnmatchedDelete(<<[key |-> input[1].hash, value |-> input[1].path]>>, input[2])
    /\ input[2].hash = input[1].hash
    /\ Len(hash_index) = 1
    /\ Len(events) = 2

(***************************************************************************)
(* C11: the store is a history.  Once the raw events Delete{p1,h},         *)
(* Create{p2,h}, Delete{p2,h}, Create{p3,h} of a file moved twice          *)
(* (p1 # p2, p2 # p3) have been ingested, the last two events of the store *)
(* are Move{p1,p2} and Move{p2,p3}, each with the timestamp of its Create; *)
(* the store does not end with one Move{p1,p3}.                            *)
(***************************************************************************)
\* The raw events k .. k+3 of inp are those of a file moved twice.
MovedTwiceAt(inp, k) ==
    /\ k >= 1
    /\ k + 3 <= Len(inp)
    /\ \A j \in k..(k + 3) : IsFile(inp[j]) /\ inp[j].hash = inp[k].hash
    /\ inp[k].op = DEL_EV
    /\ inp[k + 1].op = ADD_EV
    /\ inp[k + 2].op = DEL_EV
    /\ inp[k + 3].op = ADD_EV
    /\ inp[k + 1].path # inp[k].path
    /\ inp[k + 2].path = inp[k + 1].path
    /\ inp[k + 3].path # inp[k + 2].path

C11_HistoryNotDiff ==
    (pc = "read" /\ MovedTwiceAt(input, Len(input) - 3)) =>
        LET n == Len(input)
            m == Len(events)
        IN  /\ m >= 2
            /\ events[m - 1] = t_event_move("e_file", input[n - 2].timestamp,
                                            input[n - 3].path, input[n - 2].path)
            /\ events[m] = t_event_move("e_file", input[n].timestamp,
                                        input[n - 1].path, input[n].path)
            /\ events[m] # t_event_move("e_file", input[n].timestamp,
                                        input[n - 3].path, input[n].path)

C11_Witness ==
    /\ pc = "read"
    /\ MovedTwiceAt(input, 1)
    /\ Len(input) = 4
    /\ input[4].path # input[1].path
    /\ Len(events) = 2
    /\ events[1].event_type = "e_move"
    /\ events[2].event_type = "e_move"
    /\ events[1].new_path = events[2].old_path

(***************************************************************************)
(* C12: folder copies are never reported.  Every Copy of the store has the *)
(* kind file and names two file paths; a step adds a Copy only when it is  *)
(* add_to_state on a raw file Create, and then it appends exactly that one *)
(* Copy, to the path of the Create; no step of simplify_state adds a Copy. *)
(***************************************************************************)
RECURSIVE IsSubseq(_, _)
\* a can be obtained from b by removing elements.
IsSubseq(a, b) ==
    IF a = <<>> THEN TRUE
    ELSE IF b = <<>> THEN FALSE
    ELSE IF Head(a) = Head(b) THEN IsSubseq(Tail(a), Tail(b))
    ELSE IsSubseq(a, Tail(b))

IsCopy(e) == e.event_type = "e_copy"

Copies(evs) == SelectSeq(evs, IsCopy)

C12_NoFolderCopy ==
    [][/\ \A i \in 1..Len(events') :
             IsCopy(events'[i]) =>
                /\ events'[i].file_type = "e_file"
                /\ events'[i].src_path \in FilePaths
                /\ events'[i].dest_path \in FilePaths
       /\ \/ IsSubseq(Copies(events'), Copies(events))
          \/ /\ ReadStep
             /\ LastRead'.op = ADD_EV
             /\ IsFile(LastRead')
             /\ IsCopy(LastEvent')
             /\ LastEvent'.dest_path = LastRead'.path
             /\ Copies(events') = Append(Copies(events), LastEvent')]_vars

\* The tree of the live folder /a has been created again under /b, and
\* simplify_state has returned: the store holds the file Copy and the folder
\* Create, and no event for a copy of the folder.
C12_Witness ==
    /\ Simplified
    /\ Len(input) = 4
    /\ input[1] = [op |-> ADD_EV, timestamp |-> 1, path |-> <<SEP, "a">>,
                   hash |-> NULL_HASH]
    /\ input[3] = [op |-> ADD_EV, timestamp |-> 3, path |-> <<SEP, "b">>,
                   hash |-> NULL_HASH]
    /\ input[2].op = ADD_EV
    /\ input[2].path = <<SEP, "a", "x">>
    /\ input[4] = [input[2] EXCEPT !.timestamp = 4, !.path = <<SEP, "b", "x">>]
    /\ Len(events) = 4
    /\ events[3] = make_event(input[3])
    /\ events[4] = t_event_copy("e_file", 4, <<SEP, "a", "x">>, <<SEP, "b", "x">>)

(***************************************************************************)
(* C13: when the input holds an event whose keyword is neither ADD nor     *)
(* DEL, read_events stops at that event: nothing is read after it, the     *)
(* program never enters simplify_state nor print_state, and nothing is     *)
(* printed, not even the events read before it.                            *)
(***************************************************************************)
Malformed(r) == r.op \notin {ADD_EV, DEL_EV}

C13_MalformedStopsEverything ==
    (\E i \in 1..Len(input) : Malformed(input[i])) =>
        /\ Malformed(LastRead)
        /\ \A i \in 1..(Len(input) - 1) : ~Malformed(input[i])
        /\ pc = "crashed"
        /\ prev_it = 0
        /\ cur_it = 0
        /\ output = <<>>

\* Three events were read and stored before the malformed one.
C13_Witness ==
    /\ Len(input) = 4
    /\ Malformed(input[4])
    /\ Len(events) = 3
    /\ pc = "crashed"
    /\ output = <<>>

(***************************************************************************)
(* C14: with raw timestamps that never decrease, after every step of       *)
(* add_to_state and of simplify_state: the store is sorted by timestamp;   *)
(* the events that are stored as they were read are in the order they were *)
(* read in; and the step keeps the relative order of the events it leaves  *)
(* in the store and puts the event it inserts, if any, behind every event  *)
(* of the same timestamp.                                                  *)
(***************************************************************************)
Sorted(evs) ==
    \A i \in 1..(Len(evs) - 1) : evs[i].timestamp <= evs[i + 1].timestamp

\* An event without what simplify_folder_delete changes in place.
KeyOf(e) == IF "subtree" \in DOMAIN e THEN [e EXCEPT !.subtree = {}] ELSE e

Keys(evs) == [i \in 1..Len(evs) |-> KeyOf(evs[i])]

ReadEvents(inp) == [i \in 1..Len(inp) |-> make_event(inp[i])]

\* The events of evs that are raw events of inp, stored unchanged.
Verbatim(evs, inp) ==
    LET raws == {make_event(inp[i]) : i \in 1..Len(inp)}
        IsRaw(e) == e \in raws
    IN  SelectSeq(evs, IsRaw)

\* new is old with events removed and at most one event inserted, behind
\* every event that is not later than it.
StableStep(old, new) ==
    \/ IsSubseq(Keys(new), Keys(old))
    \/ \E k \in 1..Len(new) :
          /\ IsSubseq(Keys(remove_event(new, k)), Keys(old))
          /\ \A j \in (k + 1)..Len(new) : new[j].timestamp > new[k].timestamp

C14_SortedAndStable ==
    [][/\ Sorted(events')
       /\ IsSubseq(Verbatim(events', input'), ReadEvents(input'))
       /\ StableStep(events, events')]_vars

\* simplify_state has inserted a folder Move behind an event that was read
\* after the Move's Create and has the same timestamp.
C14_Witness ==
    /\ Simplified
    /\ Len(input) = 3
    /\ Len(events) = 2
    /\ IsEvent(events[2], "e_move", "e_folder")
    /\ events[1] = make_event(input[3])
    /\ events[1].timestamp = events[2].timestamp
    /\ input[2].path = events[2].new_path

(***************************************************************************)
(* C15: the hash index is updated from the raw event, whatever add_to_state*)
(* stored for it.  A raw file Create{p,h} adds the entry (h,p) behind the  *)
(* others; a raw file Delete{p,h} removes one entry (h,p) if there is one. *)
(* So when Delete{p1,h}, Create{p2,h} were read for a hash no earlier      *)
(* Create carried, then an event that does not carry h, the index holds    *)
(* exactly p2 under h, and a file Create{p3,h} that fuses with nothing     *)
(* appends Copy{p2,p3}.                                                    *)
(***************************************************************************)
Entry(h, p) == [key |-> h, value |-> p]

\* new is old without one occurrence of x, or old when x is not in it.
OneRemoved(old, new, x) ==
    IF \A i \in 1..Len(old) : old[i] # x THEN new = old
    ELSE \E i \in 1..Len(old) : old[i] = x /\ new = remove_event(old, i)

\* The last three raw events of inp are Delete{p1,h}, Create{p2,h} and an
\* event without h, and no Create before them carries h.
FusedThenOther(inp) ==
    LET n == Len(inp)
    IN  /\ n >= 3
        /\ inp[n - 2].op = DEL_EV
        /\ IsFile(inp[n - 2])
        /\ inp[n - 1].op = ADD_EV
        /\ inp[n - 1].hash = inp[n - 2].hash
        /\ inp[n].hash # inp[n - 2].hash
        /\ \A i \in 1..(n - 3) :
              inp[i].op = ADD_EV => inp[i].hash # inp[n - 2].hash

C16_FolderVerbatim ==
    [][ReadStep =>
          LET r == LastRead'
          IN  /\ (~IsFile(r) /\ ~Malformed(r)) =>
                    /\ events' = Append(events, make_event(r))
                    /\ hash_index' = hash_index
              /\ (/\ IsFile(r)
                  /\ r.op = ADD_EV
                  /\ events # <<>>
                  /\ LastEvent.file_type = "e_folder")
                 => /\ Len(events') = Len(events) + 1
                    /\ SubSeq(events', 1, Len(events)) = events
                    /\ \/ LastEvent' = make_event(r)
                       \/ /\ IsCopy(LastEvent')
                          /\ LastEvent'.dest_path = r.path]_vars

\* The folder /b was deleted and a file was created at the same path: both
\* events are in the store as they were read.
C16_Witness ==
    /\ pc = "read"
    /\ Len(input) = 3
    /\ IsFile(input[1])
    /\ input[2].op = DEL_EV
    /\ ~IsFile(input[2])
    /\ input[3].op = ADD_EV
    /\ IsFile(input[3])
    /\ input[3].path = input[2].path
    /\ Len(events) = 3
    /\ events[2] = make_event(input[2])
    /\ events[3] = make_event(input[3])
    /\ Len(hash_index) = 1

(***************************************************************************)
(* C17: a raw file Delete is never fused when it is read.  Whatever the    *)
(* last event of the store is, add_to_state appends the Delete as it is:   *)
(* the store grows by that one event and the events it held are unchanged. *)
(***************************************************************************)
C17_DeleteNeverFused ==
    [][(ReadStep /\ LastRead'.op = DEL_EV /\ IsFile(LastRead'))
       => events' = Append(events, make_event(LastRead'))]_vars

\* A file was deleted and created again (a Modify), then deleted: the
\* Delete follows the Modify in the store, and the file has left the index.
C17_Witness ==
    /\ pc = "read"
    /\ Len(input) = 3
    /\ IsFile(input[1])
    /\ input[1].op = DEL_EV
    /\ input[2] = [input[1] EXCEPT !.op = ADD_EV, !.timestamp = 2]
    /\ input[3] = [input[1] EXCEPT !.timestamp = 3]
    /\ Len(events) = 2
    /\ events[1].event_type = "e_modify"
    /\ events[2] = make_event(input[3])
    /\ hash_index = <<>>

(***************************************************************************)
(* C18: fusion is strictly adjacent.  add_to_state changes or removes no   *)
(* event but the last one.  A file Delete{p,h} that was followed by an     *)
(* event other than a file Create of its path or hash stays a Delete in    *)
(* the store; and when a file Create with the path or the hash of such a   *)
(* Delete is read later, as claimed the Create is appended as a Create or  *)
(* a Copy; as amended it may instead fuse with the last event of the       *)
(* store, when that is itself a file Delete of the Create's path or hash.  *)
(***************************************************************************)
\* The raw event c is a file Create with the path or the hash of d.
MatchingCreate(c, d) ==
    /\ c.op = ADD_EV
    /\ IsFile(c)
    /\ (c.path = d.path \/ c.hash = d.hash)

\* The raw event k of inp is a file Delete, and the event read after it is
\* not a file Create of its path or hash.
PassedDelete(inp, k) ==
    /\ k < Len(inp)
    /\ inp[k].op = DEL_EV
    /\ IsFile(inp[k])
    /\ ~MatchingCreate(inp[k + 1], inp[k])

InStore(evs, e) == \E i \in 1..Len(evs) : evs[i] = e

FrontUnchanged(old, new) ==
    /\ Len(new) >= Len(old)
    /\ SubSeq(new, 1, Len(old) - 1) = SubSeq(old, 1, Len(old) - 1)

PassedDeletesStay(inp, evs) ==
    \A k \in 1..Len(inp) :
        PassedDelete(inp, k) => InStore(evs, make_event(inp[k]))

\* The raw file Create r has the path or the hash of a passed Delete.
MeetsPassedDelete(inp, r) ==
    /\ r.op = ADD_EV
    /\ IsFile(r)
    /\ \E k \in 1..Len(inp) : PassedDelete(inp, k) /\ MatchingCreate(r, inp[k])

AppendedAsCreateOrCopy(old, new, r) ==
    /\ Len(new) = Len(old) + 1
    /\ SubSeq(new, 1, Len(old)) = old
    /\ \/ new[Len(new)] = make_event(r)
       \/ IsCopy(new[Len(new)]) /\ new[Len(new)].dest_path = r.path

FusedWithLast(old, new, r) ==
    /\ old # <<>>
    /\ IsEvent(old[Len(old)], "e_delete", "e_file")
    /\ Len(new) = Len(old)
    /\ \/ /\ old[Len(old)].path = r.path
          /\ new[Len(new)] = t_event_modify("e_file", r.timestamp, r.path,
                                             old[Len(old)].hash, r.hash)
       \/ /\ old[Len(old)].path # r.path
          /\ old[Len(old)].hash = r.hash
          /\ new[Len(new)] = t_event_move("e_file", r.timestamp,
                                           old[Len(old)].path, r.path)

C18_CreateAlwaysAppended ==
    [][(ReadStep /\ ~Malformed(LastRead')) =>
          /\ FrontUnchanged(events, events')
          /\ PassedDeletesStay(input', events')
          /\ MeetsPassedDelete(input, LastRead')
                => AppendedAsCreateOrCopy(events, events', LastRead')]_vars

C18_StrictlyAdjacent ==
    [][(ReadStep /\ ~Malformed(LastRead')) =>
          /\ FrontUnchanged(events, events')
          /\ PassedDeletesStay(input', events')
          /\ MeetsPassedDelete(input, LastRead')
                => \/ AppendedAsCreateOrCopy(events, events', LastRead')
                   \/ FusedWithLast(events, events', LastRead')]_vars

\* Delete{p,h}, Delete{q,h}, Create{p,h}: the Create has fused with the
\* last event into Move{q,p}, and Delete{p,h} is still in the store.
C18_Witness ==
    /\ pc = "read"
    /\ Len(input) = 3
    /\ PassedDelete(input, 1)
    /\ input[2].op = DEL_EV
    /\ input[2].hash = input[1].hash
    /\ input[3] = [input[1] EXCEPT !.op = ADD_EV, !.timestamp = 3]
    /\ events = <<make_event(input[1]),
                  t_event_move("e_file", 3, input[2].path, input[1].path)>>

(***************************************************************************)
(* C19: exactly one of Modify fusion, Move fusion, Copy detection and      *)
(* plain append applies to a raw file Create, in this priority.  So when   *)
(* the last event is a file Delete{p1,h}, the Create{p2,h} with p2 # p1 is *)
(* read and the hash index holds h, the Delete is replaced by Move{p1,p2}  *)
(* and nothing is appended: no Copy and no Create of p2.                   *)
(***************************************************************************)
LastIsFileDelete(evs) ==
    evs # <<>> /\ IsEvent(evs[Len(evs)], "e_delete", "e_file")

OneOutcomeByPriority(old, new, idx, r) ==
    LET last == old[Len(old)]
        front == SubSeq(old, 1, Len(old) - 1)
    IN  IF LastIsFileDelete(old) /\ last.path = r.path
        THEN new = Append(front, t_event_modify("e_file", r.timestamp, r.path,
                                                last.hash, r.hash))
        ELSE IF LastIsFileDelete(old) /\ last.hash = r.hash
        THEN new = Append(front, t_event_move("e_file", r.timestamp,
                                              last.path, r.path))
        ELSE IF IndexPaths(idx, r.hash) # {}
        THEN \E p0 \in IndexPaths(idx, r.hash) :
                new = Append(old, t_event_copy("e_file", r.timestamp, p0, r.path))
        ELSE new = Append(old, make_event(r))

C19_OneFusionByPriority ==
    [][(ReadStep /\ LastRead'.op = ADD_EV /\ IsFile(LastRead'))
       => OneOutcomeByPriority(events, events', hash_index, LastRead')]_vars

\* Create{p0,h}, Delete{p1,h}, Create{p2,h} with three paths: p0 holds h
\* in the index when the Create of p2 is read, and the store is Create{p0},
\* Move{p1,p2}.
C19_Witness ==
    /\ pc = "read"
    /\ Len(input) = 3
    /\ input[1].op = ADD_EV
    /\ IsFile(input[1])
    /\ input[2].op = DEL_EV
    /\ input[3].op = ADD_EV
    /\ input[2].hash = input[1].hash
    /\ input[3].hash = input[1].hash
    /\ Cardinality({input[1].path, input[2].path, input[3].path}) = 3
    /\ events = <<make_event(input[1]),
                  t_event_move("e_file", 3, input[2].path, input[3].path)>>
    /\ IndexPaths(hash_index, input[1].hash) = {input[1].path, input[3].path}

(***************************************************************************)
(* C20: the source of the Copy that an unfused file Create{p,h} appends    *)
(* when the index holds paths under h.  As claimed it is the lowest path   *)
(* of the set of paths the index holds under h, whatever the order they    *)
(* were created in; as amended it is the path of the oldest entry the      *)
(* index holds under h, so it depends on the order of the Creates.  Either *)
(* way the step has one outcome.                                           *)
(***************************************************************************)
\* The file paths in the order of t_path (std::list<std::string>).
PathsInOrder == <<<<SEP, "a", "x">>, <<SEP, "b">>, <<SEP, "b", "x">>>>

PathRank(p) == CHOOSE i \in 1..Len(PathsInOrder) : PathsInOrder[i] = p

LowestPath(S) == CHOOSE p \in S : \A q \in S : PathRank(p) <= PathRank(q)

\* The value of the entry that was inserted first among those of key h.
OldestPath(idx, h) ==
    LET i == CHOOSE k \in 1..Len(idx) :
                 idx[k].key = h /\ \A j \in 1..(k - 1) : idx[j].key # h
    IN  idx[i].value

UnfusedCopy(evs, idx, r) ==
    /\ r.op = ADD_EV
    /\ IsFile(r)
    /\ NoFusion(evs, r)
    /\ IndexPaths(idx, r.hash) # {}

C20_CopySourceIsLowest ==
    [][(ReadStep /\ UnfusedCopy(events, hash_index, LastRead'))
       => events' = Append(events,
              t_event_copy("e_file", LastRead'.timestamp,
                           LowestPath(IndexPaths(hash_index, LastRead'.hash)),
                           LastRead'.path))]_vars

C20_CopySourceIsOldest ==
    [][(ReadStep /\ UnfusedCopy(events, hash_index, LastRead'))
       => events' = Append(events,
              t_event_copy("e_file", LastRead'.timestamp,
                           OldestPath(hash_index, LastRead'.hash),
                           LastRead'.path))]_vars

\* Two paths hold h, the higher one created first: it is the source of the
\* Copy to the third path.
C20_Witness ==
    /\ pc = "read"
    /\ Len(input) = 3
    /\ \A i \in 1..3 : input[i].op = ADD_EV /\ input[i].hash = input[1].hash
    /\ IsFile(input[1])
    /\ PathRank(input[2].path) < PathRank(input[1].path)
    /\ input[3].path \notin {input[1].path, input[2].path}
    /\ Len(events) = 3
    /\ events[3] = t_event_copy("e_file", 3, input[1].path, input[3].path)

(***************************************************************************)
(* C21: one application of simplify_folder_delete to adjacent events       *)
(* (prev, cur).  When both are Deletes, cur is a folder Delete and cur's   *)
(* path is the parent of prev's path, prev is removed, every other event   *)
(* is unchanged, and cur's subtree receives the entry                      *)
(* (name(prev), prev.hash) and, for every entry (k, v) of prev's subtree,  *)
(* the entry (name(prev)/k, v): as claimed all of them are added; as       *)
(* amended, an entry whose key cur's subtree already holds is not added    *)
(* and the one it holds stays.  When a condition fails nothing changes.    *)
(***************************************************************************)
CollapseApplies(prev, cur) ==
    /\ prev.event_type = "e_delete"
    /\ cur.event_type = "e_delete"
    /\ cur.file_type = "e_folder"
    /\ cur.path = get_parent(prev.path)

\* The entries the claim says cur's subtree gains from prev.
GainedEntries(prev) ==
    {<<<<get_name(prev.path)>>, prev.hash>>}
    \cup {<<<<get_name(prev.path), SEP>> \o e[1], e[2]>> : e \in prev.subtree}

TreeKeys(tree) == {e[1] : e \in tree}

\* new is old with event i removed and the subtree of event i + 1 replaced.
CollapsedInto(old, new, i, subtree) ==
    /\ Len(new) = Len(old) - 1
    /\ \A j \in 1..(i - 1) : new[j] = old[j]
    /\ new[i] = [old[i + 1] EXCEPT !.subtree = subtree]
    /\ \A j \in (i + 2)..Len(old) : new[j - 1] = old[j]

C21_CollapseStepAddsAll ==
    [][pc' = "step" =>
          LET prev == events[prev_it']
              cur == events[cur_it']
          IN  IF CollapseApplies(prev, cur)
              THEN CollapsedInto(events, events', prev_it',
                                 cur.subtree \cup GainedEntries(prev))
              ELSE events' = events]_vars

C21_CollapseStep ==
    [][pc' = "step" =>
          LET prev == events[prev_it']
              cur == events[cur_it']
          IN  IF CollapseApplies(prev, cur)
              THEN CollapsedInto(events, events', prev_it',
                       cur.subtree
                       \cup {g \in GainedEntries(prev) :
                                g[1] \notin TreeKeys(cur.subtree)})
              ELSE events' = events]_vars

\* The folder /a/b, collapsed with its file x, has been absorbed by the
\* Delete of /a, which had absorbed /a/x before.
C21_Witness ==
    /\ pc = "step"
    /\ Len(events) = 1
    /\ events[1].path = <<SEP, "a">>
    /\ \E h1 \in Hashes, h2 \in Hashes :
          events[1].subtree = {<<<<"x">>, h1>>,
                               <<<<"b">>, NULL_HASH>>,
                               <<<<"b", SEP, "x">>, h2>>}

(***************************************************************************)
(* C22: a folder Delete absorbs the whole run of Deletes right before it   *)
(* that are its direct children.  For the adjacent Deletes of one to three *)
(* files of /a followed by the Delete of /a, at the beginning of the store *)
(* or after another event, simplify_state comes to its end, and then the   *)
(* store holds one event of the tree, Delete{/a}, whose subtree has one    *)
(* entry (name, hash) per file.                                            *)
(***************************************************************************)
\* The raw events of inp that delete a file of /a.
ChildEntries(inp) ==
    {<<<<get_name(inp[i].path)>>, inp[i].hash>> :
        i \in {j \in 1..Len(inp) :
                  inp[j].op = "DEL" /\ get_parent(inp[j].path) = PathA}}

C22_RunIsAbsorbed ==
    (input \in ChildRunScripts /\ pc # "read") =>
        /\ pc # "crashed"
        /\ Simplified => OneDeleteOfA(ChildEntries(input))

(***************************************************************************)
(* C23: a Delete that is separated from the Delete of an enclosing folder, *)
(* or that is not a direct child of it.  As claimed, such a Delete is in   *)
(* the final store as it was read (here: when a Create was read between    *)
(* the two Deletes, or when the two are adjacent and the first is not a    *)
(* direct child).  As amended, it is only not absorbed by that folder      *)
(* Delete: the pass of the scan over a folder Delete removes only the run  *)
(* of Deletes right before it that are its direct children, leaves every   *)
(* other earlier event in place and unchanged, and adds no entry from      *)
(* them to the folder Delete's subtree.                                    *)
(***************************************************************************)
IsProperPrefixOf(prefix, path) ==
    Len(prefix) < Len(path) /\ IsPrefixOf(prefix, path)

\* The raw Delete i of inp is still a Delete in the store after reading.
StoredDelete(inp, i) ==
    /\ inp[i].op = DEL_EV
    /\ (i < Len(inp) /\ IsFile(inp[i])) => ~MatchingCreate(inp[i + 1], inp[i])

\* The raw Delete i is a descendant of the folder whose Delete is j, and a
\* Create was read between them, or they are adjacent and i is not a direct
\* child.
InterruptedPair(inp, i, j) ==
    /\ i < j
    /\ StoredDelete(inp, i)
    /\ inp[j].op = DEL_EV
    /\ ~IsFile(inp[j])
    /\ IsProperPrefixOf(inp[j].path, inp[i].path)
    /\ \/ \E k \in (i + 1)..(j - 1) : inp[k].op = ADD_EV
       \/ j = i + 1 /\ get_parent(inp[i].path) # inp[j].path

C23_InterruptedDeleteRemains ==
    Simplified =>
        \A i \in 1..Len(input), j \in 1..Len(input) :
            InterruptedPair(input, i, j) =>
                \E k \in 1..Len(events) : KeyOf(events[k]) = make_event(input[i])

\* The Deletes right before event c that are direct children of its path.
ChildRun(evs, c) ==
    {i \in 1..(c - 1) :
        \A j \in i..(c - 1) :
            /\ evs[j].event_type = "e_delete"
            /\ get_parent(evs[j].path) = evs[c].path}

GainedKeys(e) == TreeKeys(GainedEntries(e))

C23_OnlyChildRunAbsorbed ==
    [][(/\ pc = "cond"
        /\ pc' # "cond"
        /\ cur_it <= Len(events)
        /\ IsEvent(events[cur_it], "e_delete", "e_folder"))
       => LET run == ChildRun(events, cur_it)
              others == (1..(cur_it - 1)) \ run
              givers == {events[j] : j \in
                            {k \in run \cup ((cur_it + 1)..Len(events)) :
                                events[k].event_type = "e_delete"}}
          IN  /\ \A i \in others : i <= Len(events') /\ events'[i] = events[i]
              /\ \E p \in 1..Len(events') :
                    /\ KeyOf(events'[p]) = KeyOf(events[cur_it])
                    /\ TreeKeys(events'[p].subtree)
                          \subseteq TreeKeys(events[cur_it].subtree)
                                    \cup UNION {GainedKeys(g) : g \in givers}]_vars

\* Delete /a/b/x, Delete /a/x, Delete /a: the folder Delete has absorbed
\* /a/x and not /a/b/x, which is not its direct child.
C23_Witness ==
    /\ Simplified
    /\ Len(input) = 3
    /\ input[1].path = <<SEP, "a", "b", "x">>
    /\ input[2].path = <<SEP, "a", "x">>
    /\ Len(events) = 2
    /\ events[1] = make_event(input[1])
    /\ events[2].path = <<SEP, "a">>
    /\ events[2].subtree = {<<<<"x">>, input[2].hash>>}

(***************************************************************************)
(* C24: a pass of the scan that makes a folder Move replaces exactly a     *)
(* Delete and the Creates behind it (the first Create P and the Creates    *)
(* after it that are proper descendants of P) by the Move, which stands    *)
(* where they stood: the events before the Delete and the events after     *)
(* the run are the same, in the same order, before and after the Move.     *)
(***************************************************************************)
FolderMoves(evs) ==
    {i \in 1..Len(evs) : IsEvent(evs[i], "e_move", "e_folder")}

\* The last event of the run of Creates that starts at c.
RECURSIVE CreateRunEnd(_, _, _)
CreateRunEnd(evs, c, e) ==
    IF /\ e < Len(evs)
       /\ evs[e + 1].event_type = "e_new"
       /\ IsProperPrefixOf(evs[c].path, evs[e + 1].path)
    THEN CreateRunEnd(evs, c, e + 1)
    ELSE e

MakesFolderMove ==
    /\ pc = "cond"
    /\ pc' # "cond"
    /\ Cardinality(FolderMoves(events')) > Cardinality(FolderMoves(events))

C24_MoveTakesPlaceOfSpan ==
    [][MakesFolderMove =>
        \E d \in 1..(Len(events) - 1) :
            /\ events[d].event_type = "e_delete"
            /\ events[d + 1].event_type = "e_new"
            /\ d \in FolderMoves(events')
            /\ events'[d].old_path = events[d].path
            /\ events'[d].new_path = events[d + 1].path
            /\ events' = SubSeq(events, 1, d - 1) \o <<events'[d]>>
                           \o SubSeq(events, CreateRunEnd(events, d + 1, d + 1) + 1,
                                     Len(events))]_vars

(***************************************************************************)
(* C25: two folder moves one after the other, each the Delete of an empty  *)
(* folder followed by the Create of a folder, are both rewritten: the      *)
(* simplified store ends with the two folder Moves, in input order.        *)
(***************************************************************************)
IsRawFolder(r, op) == r.op = op /\ ~IsFile(r)

\* inp ends with Delete f, Create g, Delete f2, Create g2 of folders, and
\* the event before them, if any, is not the Delete of a child of f.
TwoFolderMoves(inp) ==
    LET n == Len(inp)
    IN  /\ n >= 4
        /\ IsRawFolder(inp[n - 3], DEL_EV)
        /\ IsRawFolder(inp[n - 2], ADD_EV)
        /\ IsRawFolder(inp[n - 1], DEL_EV)
        /\ IsRawFolder(inp[n], ADD_EV)
        /\ n > 4 => ~(/\ inp[n - 4].op = DEL_EV
                      /\ get_parent(inp[n - 4].path) = inp[n - 3].path)

IsFolderMove(e, old_path, new_path) ==
    /\ IsEvent(e, "e_move", "e_folder")
    /\ e.old_path = old_path
    /\ e.new_path = new_path

C25_BothMovesDetected ==
    (Simplified /\ TwoFolderMoves(input)) =>
        LET n == Len(input)
            m == Len(events)
        IN  /\ m >= 2
            /\ IsFolderMove(events[m - 1], input[n - 3].path, input[n - 2].path)
            /\ IsFolderMove(events[m], input[n - 1].path, input[n].path)

(***************************************************************************)
(* C26: on a store that is not empty the scan of simplify_state goes on    *)
(* until the end of the store: it is never cut short, the loop body        *)
(* either removes events or leaves the store as it is, and the increment   *)
(* that follows moves the scan position forward.                           *)
(***************************************************************************)
InScan == pc \in {"cond", "incr"} /\ events # <<>>

C26_ScanReachesEnd ==
    [][InScan =>
        /\ pc' # "crashed"
        /\ \/ Len(events') < Len(events)
           \/ /\ events' = events
              /\ \/ pc' = "incr" /\ cur_it' = cur_it
                 \/ pc' = "cond" /\ cur_it' > cur_it
                 \/ pc' = "done" /\ cur_it > Len(events)]_vars

(***************************************************************************)
(* C27: with no event read, simplify_state returns at once and the store   *)
(* is still empty: the program is never stopped in it.                     *)
(***************************************************************************)
C27_EmptyStoreReturns ==
    (input = <<>> /\ pc # "read") =>
        /\ pc \in {"cond", "done", "exit"}
        /\ events = <<>>

(***************************************************************************)
(* C28: when the for-increment of simplify_state advances prev_it and      *)
(* cur_it, and when the loop body reads them, both refer to events that    *)
(* are in the store.                                                       *)
(***************************************************************************)
C28_CursorsInStore ==
    /\ pc = "incr" =>
          /\ prev_it \in 1..Len(events)
          /\ cur_it \in 1..Len(events)
    /\ (pc = "cond" /\ cur_it <= Len(events)) =>
          /\ prev_it \in 1..Len(events)
          /\ cur_it \in 1..Len(events)

(***************************************************************************)
(* C29: when simplify_state has returned, no Delete stands right before    *)
(* the Delete of its parent folder.                                        *)
(***************************************************************************)
Collapsible(evs, i) ==
    /\ evs[i].event_type = "e_delete"
    /\ IsEvent(evs[i + 1], "e_delete", "e_folder")
    /\ get_parent(evs[i].path) = evs[i + 1].path

C29_CollapsingComplete ==
    Simplified => \A i \in 1..(Len(events) - 1) : ~Collapsible(events, i)

(***************************************************************************)
(* The program as a function of its input, to compare two runs.  ub tells  *)
(* that the run went through the increment of an erased or end iterator,   *)
(* after which its result is not determined.                               *)
(***************************************************************************)
\* read_events from an empty state; returns [events, hash_index].
RECURSIVE read_events(_)
read_events(inp) ==
    IF inp = <<>> THEN [events |-> <<>>, hash_index |-> <<>>]
    ELSE LET st == read_events(SubSeq(inp, 1, Len(inp) - 1))
             ev == make_event(inp[Len(inp)])
         IN  IF ev.file_type = "e_folder"
             THEN [events |-> InsertEvent(st.events, ev),
                   hash_index |-> st.hash_index]
             ELSE [events |-> add_file_event(st.events, st.hash_index, ev),
                   hash_index |-> update_index(st.hash_index, ev)]

\* The for loop of simplify_state from (prev, cur) on; returns [events, ub].
RECURSIVE for_loop(_, _, _)
for_loop(evs, prev, cur) ==
    IF cur > Len(evs) THEN [events |-> evs, ub |-> FALSE]
    ELSE LET b == loop_body(evs, prev, cur)
         IN  IF b.crash \/ b.prev = 0 THEN [events |-> b.events, ub |-> TRUE]
             ELSE for_loop(b.events, b.prev + 1, b.cur + 1)

simplify_state(evs) ==
    IF evs = <<>> THEN [events |-> evs, ub |-> TRUE]
    ELSE for_loop(evs, 1, 2)

\* read_events, then simplify_state.
main(inp) == simplify_state(read_events(inp).events)

(***************************************************************************)
(* C30: the same raw events, once with the timestamps of the input (which  *)
(* may repeat) and once with strictly increasing timestamps, end in        *)
(* stores with the same kinds, paths and hashes in the same order.         *)
(***************************************************************************)
\* inp with the timestamps 1, 2, 3, ...
Restamp(inp) == [i \in 1..Len(inp) |-> [inp[i] EXCEPT !.timestamp = i]]

\* An event without its timestamp and subtree.
Shape(e) == [KeyOf(e) EXCEPT !.timestamp = 0]

Shapes(evs) == [i \in 1..Len(evs) |-> Shape(evs[i])]

C30_TimestampsOnlyOrder ==
    Simplified =>
        LET tied == main(input)
            strict == main(Restamp(input))
        IN  (~tied.ub /\ ~strict.ub /\ events = tied.events)
                => Shapes(events) = Shapes(strict.events)

\* A run that did not go through an undefined increment ends in main's store.
RunIsMain ==
    (Simplified /\ ~main(input).ub) => events = main(input).events

(***************************************************************************)
(* C31: a step of simplify_state leaves the hash index (and the input) as  *)
(* it was.  Every event of the store after the step is an event of the     *)
(* store before it, or such an event with another subtree when it is a     *)
(* folder Delete, or a folder Move.                                        *)
(***************************************************************************)
SimplifyStep == ~ReadStep /\ pc \in {"read", "cond", "incr"}

C31_SimplifyKeepsIndex ==
    [][SimplifyStep =>
        /\ hash_index' = hash_index
        /\ input' = input
        /\ \A k \in 1..Len(events') :
              \/ \E i \in 1..Len(events) : events'[k] = events[i]
              \/ /\ IsEvent(events'[k], "e_delete", "e_folder")
                 /\ \E i \in 1..Len(events) : KeyOf(events'[k]) = KeyOf(events[i])
              \/ IsEvent(events'[k], "e_move", "e_folder")]_vars

\* A folder Move stands in the store and the index still holds the path of
\* the Create it was made of.
C31_Witness ==
    /\ pc \in {"incr", "cond", "done"}
    /\ \E k \in 1..Len(events), i \in 1..Len(hash_index) :
          /\ IsEvent(events[k], "e_move", "e_folder")
          /\ IsPrefixOf(events[k].new_path, hash_index[i].value)

(***************************************************************************)
(* C32: every file Move that add_to_state has stored joins two different   *)
(* paths, so it is a rename, a move or both: a Delete followed by the      *)
(* Create of the same path is never stored as a Move.                      *)
(***************************************************************************)
FileMoves(evs) ==
    {i \in 1..Len(evs) : IsEvent(evs[i], "e_move", "e_file")}

C33_FolderMoveTargetsFolder ==
    \A k \in FolderMoves(events) :
        \E i \in 1..Len(input) :
            /\ IsRawFolder(input[i], ADD_EV)
            /\ input[i].path = events[k].new_path
            /\ input[i].timestamp = events[k].timestamp

(***************************************************************************)
(* C34: in a stream where every file is created only while it is not live  *)
(* and deleted only while it is live, with the hash it has, the source of  *)
(* every Copy that add_to_state appends is another path than the           *)
(* destination and is live with the hash of the destination when the       *)
(* destination is created.                                                 *)
(***************************************************************************)
\* The file p is live with hash h after inp.
FileLive(inp, p, h) ==
    \E i \in 1..Len(inp) :
        /\ IsFile(inp[i])
        /\ inp[i].op = ADD_EV
        /\ inp[i].path = p
        /\ inp[i].hash = h
        /\ \A j \in (i + 1)..Len(inp) : ~(IsFile(inp[j]) /\ inp[j].path = p)

Disciplined(inp) ==
    \A i \in 1..Len(inp) :
        LET before == SubSeq(inp, 1, i - 1)
        IN  IsFile(inp[i]) =>
              /\ inp[i].op \in {ADD_EV, DEL_EV}
              /\ inp[i].op = ADD_EV =>
                    \A h \in Hashes : ~FileLive(before, inp[i].path, h)
              /\ inp[i].op = DEL_EV =>
                    FileLive(before, inp[i].path, inp[i].hash)

CopyAppended ==
    /\ ReadStep
    /\ Len(events') = Len(events) + 1
    /\ IsCopy(LastEvent')
    /\ LastEvent'.dest_path = LastRead'.path

C34_CopySourceIsLive ==
    [][(CopyAppended /\ Disciplined(input'))
       => /\ LastEvent'.src_path # LastEvent'.dest_path
          /\ FileLive(input, LastEvent'.src_path, LastRead'.hash)]_vars

\* A Copy was appended last in a disciplined stream in which a file had been
\* deleted.
C34_Witness ==
    /\ events # <<>>
    /\ IsCopy(LastEvent)
    /\ Disciplined(input)
    /\ LastRead.op = ADD_EV
    /\ LastEvent.dest_path = LastRead.path
    /\ \E i \in 1..Len(input) : IsFile(input[i]) /\ input[i].op = DEL_EV

(***************************************************************************)
(* make_path, on the text of a path as read_events reads it: a sequence of *)
(* characters that is not empty.  Here a path is a sequence of segments    *)
(* and a segment is a sequence of characters; the root segment that        *)
(* make_path pushes is <<SEP>>.  Positions in the text count from 0, as in *)
(* the code.                                                               *)
(***************************************************************************)
MaxPathLen == 3

MaxLines == 2

PathChars == {SEP, "a"}

npos == 0 - 1

\* std::string::find(SEP, base_it).
find(raw_path, base_it) ==
    LET hits == {i \in base_it..(Len(raw_path) - 1) : raw_path[i + 1] = SEP}
    IN  IF hits = {} THEN npos ELSE Min(hits)

\* std::string(raw_path, pos, n): the n characters from pos, or those up to
\* the end of the text when there are fewer.
substr(raw_path, pos, n) ==
    SubSeq(raw_path, pos + 1, Min({pos + n, Len(raw_path)}))

\* The while loop of make_path from base_it on.
RECURSIVE make_path_loop(_, _, _)
make_path_loop(raw_path, base_it, path) ==
    LET next_it == find(raw_path, base_it)
        n == IF next_it = npos THEN Len(raw_path) ELSE next_it - base_it
        pushed == IF next_it # base_it
                  THEN Append(path, substr(raw_path, base_it, n))
                  ELSE Append(path, <<SEP>>)
    IN  IF next_it = npos THEN pushed
        ELSE make_path_loop(raw_path, next_it + 1, pushed)

\* make_path dropping the empty segment behind a last separator.
make_path_no_empty_tail(raw_path) ==
    LET path == make_path_loop(raw_path, 0, <<>>)
    IN  IF Len(path) > 1 /\ path[Len(path)] = <<>>
        THEN SubSeq(path, 1, Len(path) - 1)
        ELSE path

make_path(raw_path) == make_path_loop(raw_path, 0, <<>>)

\* The texts of at most MaxPathLen characters.
PathTexts == UNION {[1..n -> PathChars] : n \in 1..MaxPathLen}

\* read_events reading the line of a folder event: text is the path as
\* written in the line, path what make_path makes of it.
ReadLine ==
    /\ Len(input) < MaxLines
    /\ \E op \in {ADD_EV, DEL_EV}, raw_path \in PathTexts :
          read_one([op |-> op, timestamp |-> Len(input) + 1,
                    path |-> make_path(raw_path), hash |-> NULL_HASH,
                    text |-> raw_path])

SpecPath == Init /\ [][ReadLine]_vars

(***************************************************************************)
(* C35: the path read from the text that is the separator alone is the     *)
(* root, the parent of the path read from the text of a top-level object   *)
(* (the separator and a name).                                             *)
(***************************************************************************)
IsTopLevelText(text) ==
    /\ Len(text) >= 2
    /\ text[1] = SEP
    /\ \A k \in 2..Len(text) : text[k] # SEP

C35_SeparatorIsRoot ==
    \A i \in 1..Len(input), j \in 1..Len(input) :
        (input[i].text = <<SEP>> /\ IsTopLevelText(input[j].text))
            => /\ input[i].path = get_parent(input[j].path)
               /\ events[i].path = get_parent(events[j].path)

=============================================================================
